---- MODULE Spec2Model ----
(***************************************************************************)
(* Conversation history synchronisation between the WhatsApp session and   *)
(* the store (backend/controllers/whatsapp.js): sendMessage,               *)
(* syncConversationHistory and syncAllConversationsHistory.                *)
(*                                                                         *)
(* Every handler is an async function: it runs without interruption up to  *)
(* its next await.  A process's pc names the call it is awaiting; one      *)
(* action is the completion of that call (its effect on the store or the   *)
(* session, its outcome) followed by the handler's synchronous code up to  *)
(* the next await or to the response.                                      *)
(*                                                                         *)
(* The page's useMessages hook (frontend/hooks/useMessages.ts) is modelled *)
(* the same way: its loads in flight, the new_message events on their way  *)
(* to it, and the list it displays.                                        *)
(***************************************************************************)
EXTENDS Integers, Sequences, FiniteSets, TLC

\* ------------------------------------------------------------------ bounds
MaxMsgs == 2        \* messages the session ever holds
MaxReqs == 2        \* requests served in one behaviour
MaxClock == 2       \* the wall clock runs over 0..MaxClock half seconds
MaxLoads == 2       \* loads of the page in flight at one time
MaxSends == 2       \* handleSendMessage calls in flight at one time
MaxFetches == 3     \* requests of the status provider in flight at one time

\* ------------------------------------------------------- program constants
SingleFetchLimit == 999999
BulkFetchLimit == 100
PageLimit == 200
MsPerSecond == 1000

Procs == {1, 2}

\* the slots that serve bulk syncs
BulkProcs == {1}

\* ------------------------------------------------------------ phone numbers
\* A phone number or chat id is a string, modelled as a sequence of tokens:
\* the numeric core, the "@c.us" suffix, a leading "+".
Suffix == "@c.us"

Min(S) == CHOOSE x \in S : \A y \in S : x <= y

\* String.prototype.replace(pattern, '') with a string pattern: the first
\* occurrence only.
Replace(s, tok) ==
  LET at == {i \in 1..Len(s) : s[i] = tok}
  IN  IF at = {} THEN s
      ELSE SubSeq(s, 1, Min(at) - 1) \o SubSeq(s, Min(at) + 1, Len(s))

\* whatsappClient.getChats(): the chats of the session, by their id._serialized.
Chats == << <<"111", Suffix>>, <<"222", Suffix>>, <<"333", Suffix>>, <<"444", Suffix>> >>

ChatIdx == 1..Len(Chats)

\* The match that also drops a leading "+" of the conversation's number.
TargetChatIgnoringPlus(conversation) ==
  LET hits == {c \in ChatIdx :
                 Replace(Chats[c], Suffix)
                   = Replace(Replace(conversation.phone_number, Suffix), "+")}
  IN  IF hits = {} THEN 0 ELSE Min(hits)

\* chats.find(chat => chatNumber === conversationNumber): the index of the
\* first matching chat, 0 (undefined) when none matches.
TargetChat(conversation) ==
  LET hits == {c \in ChatIdx :
                 Replace(Chats[c], Suffix) = Replace(conversation.phone_number, Suffix)}
  IN  IF hits = {} THEN 0 ELSE Min(hits)

\* ------------------------------------------------------------------- time
\* new Date(msg.timestamp * 1000).toISOString(): epoch seconds to the store's
\* millisecond datetime.
ToStoreTime(timestamp) == timestamp * MsPerSecond

\* The wall clock counts half seconds; new Date().toISOString() is in ms.
ClockToStoreTime(clock) == clock * (MsPerSecond \div 2)

\* ------------------------------------------------------------------ store
ConvIds == {1, 2, 3}

\* the id the store gives the next conversation it creates
NewConvId == Cardinality(ConvIds) + 1

\* req.params.conversationId: the conversations there may be and an unknown id
RequestIds == ConvIds \cup {NewConvId, 5}

\* req.body.number: missing, the number of conversation 1 or 2, a new number
Numbers == {<<>>, <<"111">>, <<"222", Suffix>>, <<"444">>}

InitConversations ==
  [id \in ConvIds |->
     [id |-> id,
      phone_number |-> CASE id = 1 -> <<"111">>
                         [] id = 2 -> <<"222", Suffix>>
                         [] OTHER  -> <<"+", "333">>,
      last_message_at |-> IF id = 3 THEN MsPerSecond \div 2 ELSE 0]]

NoRow == [id |-> 0, phone_number |-> <<>>, last_message_at |-> 0]

VARIABLES
  connected,      \* whatsappClient.info is set
  chatMsgs,       \* session: chat index -> its messages, oldest first
  nextMsgId,      \* session: the next external message identifier
  conversations,  \* store: conversations table, id -> row
  messages,       \* store: messages table, rows in insertion order
  clock,          \* wall clock, half seconds
  proc,           \* request slot -> the handler's locals and position
  reqs,           \* requests started so far
  faults,         \* whether calls to the store and the session may fail
  ui              \* the browser: the useMessages hook, its loads and socket events

vars == <<ui, faults, connected, chatMsgs, nextMsgId, conversations, messages, clock, proc, reqs>>

\* ------------------------------------------------------ the dedup filter
\* The filter without its test: no message is taken for a duplicate.
NeverDuplicate(existingMessageIds, messageId) == FALSE

\* existingMessageIds.has(messageId)
IsDuplicate(existingMessageIds, messageId) == messageId \in existingMessageIds

\* The loop running from the last message of the batch to the first.
LoopMessageReversed(msgs, j) == msgs[Len(msgs) + 1 - j]

\* for (const msg of messages): the message of the j-th iteration
LoopMessage(msgs, j) == msgs[j]

\* The for loop up to its next saveMessage call: the first index from j on
\* whose message is not a duplicate, Len + 1 when there is none.
RECURSIVE NextToSave(_, _, _)
NextToSave(msgs, existingMessageIds, j) ==
  IF j > Len(msgs) THEN j
  ELSE IF IsDuplicate(existingMessageIds, LoopMessage(msgs, j).id)
       THEN NextToSave(msgs, existingMessageIds, j + 1)
       ELSE j

\* messages.reduce((latest, msg) => msg.timestamp > latest.timestamp ? msg : latest)
RECURSIVE LatestFrom(_, _, _)
LatestFrom(msgs, latest, j) ==
  IF j > Len(msgs) THEN latest
  ELSE LatestFrom(msgs, IF msgs[j].timestamp > latest.timestamp THEN msgs[j] ELSE latest, j + 1)

LatestMessage(msgs) == LatestFrom(msgs, msgs[1], 2)

\* chat.fetchMessages({limit}): the last `limit` messages of the chat.
FetchMessages(c, limit) ==
  LET all == chatMsgs[c]
  IN  IF Len(all) <= limit THEN all ELSE SubSeq(all, Len(all) - limit + 1, Len(all))

\* select('message_id').eq('conversation_id', id) on the messages table
SelectMessageIds(conversationId) ==
  {messages[r].message_id : r \in {r \in 1..Len(messages) : messages[r].conversation_id = conversationId}}

\* --------------------------------------------------------------- handlers
\* The locals of a handler, and the history of the request: connected0,
\* messages0 and conversations0 are the session state and the two tables as
\* the request found them; calls are the awaited calls it issued, attempted
\* and saved the messages it tried to save and saved, in that order; caught
\* are the conversations whose pass a bulk sync gave up on an exception; lookup is
\* the outcome of its last select of message ids; lastPass is the last
\* conversation pass it ran to the end; prev is the request the slot served
\* before this one, when that was a single-conversation sync that returned a
\* result and in which no save failed, or one that was abandoned.
Fresh ==
  [op |-> "none", pc |-> "idle",
   conversationId |-> 0, conversation |-> NoRow, targetChat |-> 0,
   fetched |-> <<>>, existingMessageIds |-> {}, i |-> 0,
   newMessagesSaved |-> 0, skippedMessages |-> 0,
   response |-> [status |-> 0, kind |-> "none"],
   conversations |-> <<>>, k |-> 0, newMessagesForThisConv |-> 0,
   totalNewMessages |-> 0, conversationsSynced |-> 0, syncResults |-> <<>>,
   number |-> <<>>, message |-> "", sentMessageId |-> 0, savedId |-> 0, timestamp |-> 0,
   calls |-> <<>>, attempted |-> <<>>, saved |-> <<>>, failed |-> 0, caught |-> <<>>,
   lookup |-> "none", lastPass |-> [conv |-> 0, fetched |-> <<>>],
   connected0 |-> FALSE, messages0 |-> <<>>, conversations0 |-> <<>>,
   prev |-> [op |-> "none"]]

Starting(p, op, conversationId) ==
  [Fresh EXCEPT !.op = op, !.conversationId = conversationId,
                !.connected0 = connected,
                !.messages0 = messages, !.conversations0 = conversations,
                !.prev = proc[p].prev]

\* a request is served by the first free slot
Idle(p) == proc[p].pc = "idle" /\ \A q \in Procs : q < p => proc[q].pc # "idle"

Set(p, st) == proc' = [proc EXCEPT ![p] = st]

\* res.status(..).json(..) / res.json(..), after which the handler returns
Respond(st, response) == [st EXCEPT !.pc = "done", !.response = response]

\* the handler issues an awaited call and suspends
Call(st, label) ==
  [st EXCEPT !.pc = label,
             !.calls = Append(@, [call |-> label, conv |-> st.conversationId])]

\* the handler issues saveMessage for a message of the batch
CallSave(st, messageId) ==
  Call([st EXCEPT !.attempted = Append(@, [conv |-> st.conversationId,
                                           message_id |-> messageId])],
       "saveMessage")

\* a pass over one conversation has run to its end
PassDone(st) ==
  [st EXCEPT !.lastPass = [conv |-> st.conversationId, fetched |-> st.fetched]]

SessionUnavailable == [status |-> 503, kind |-> "SessionUnavailable"]
NotFound == [status |-> 404, kind |-> "NotFound"]
ChatNotFound == [status |-> 404, kind |-> "ChatNotFound"]
ServerError == [status |-> 500, kind |-> "ServerError"]

\* The outcomes of an awaited call: those of a healthy store and session, and
\* the failures.  The store client reports a failed query in its result
\* ({ data: null, error }); a call may also throw.
Outcomes(healthy, failures) == IF faults THEN healthy \cup failures ELSE healthy

\* The handler without its session check.
AlwaysConnected == TRUE

\* if (!whatsappClient || !whatsappClient.info)
ClientConnected == connected

\* saveMessage(conversationId, body, isFromMe, messageId, timestamp, userId):
\* the row it inserts
MessageRow(conversationId, isFromMe, messageId, timestamp) ==
  [id |-> Len(messages) + 1, conversation_id |-> conversationId,
   message_id |-> messageId, is_from_me |-> isFromMe, timestamp |-> timestamp]

\* The update without its filter on the conversation's id.
UpdateEveryLastMessageAt(id, at) ==
  conversations' = [c \in DOMAIN conversations |->
                      [conversations[c] EXCEPT !.last_message_at = at]]

\* .from('conversations').update({ last_message_at }).eq('id', id)
UpdateLastMessageAt(id, at) ==
  conversations' = [c \in DOMAIN conversations |->
                      IF c = id THEN [conversations[c] EXCEPT !.last_message_at = at]
                      ELSE conversations[c]]

\* ------------------------------------------------ syncConversationHistory
\* The result with newMessagesSaved counting the saves tried, not the saves
\* that succeeded.
SyncResultCountingTries(st) ==
  [status |-> 200, kind |-> "SyncResult", conversationId |-> st.conversationId,
   totalMessages |-> Len(st.fetched),
   newMessagesSaved |-> Len(st.attempted),
   skippedMessages |-> st.skippedMessages]

SyncResult(st) ==
  [status |-> 200, kind |-> "SyncResult", conversationId |-> st.conversationId,
   totalMessages |-> Len(st.fetched),
   newMessagesSaved |-> st.newMessagesSaved,
   skippedMessages |-> st.skippedMessages]

\* The timestamp update without its test on the batch.
AlwaysUpdate(msgs) == TRUE

\* if (messages.length > 0): the timestamp update follows the loop
NeedsTimestampUpdate(msgs) == Len(msgs) > 0

\* res.json({ success: true, .. })
SyncRespond(st) == Respond(PassDone(st), SyncResult(st))

\* after the for loop: the timestamp update, or the response
SyncAfterLoop(st) ==
  IF NeedsTimestampUpdate(st.fetched) THEN Call(st, "updateConversation")
  ELSE SyncRespond(st)

\* The loop without skippedMessages++ for the messages it passes over.
SyncLoopNotCountingSkips(st, j) ==
  LET n  == NextToSave(st.fetched, st.existingMessageIds, j)
      s1 == [st EXCEPT !.i = n]
  IN  IF n <= Len(st.fetched) THEN CallSave(s1, LoopMessage(s1.fetched, n).id)
      ELSE [s1 EXCEPT !.pc = "endOfLoop"]

\* the for loop from index j to its next await, or to its end
SyncLoop(st, j) ==
  LET n  == NextToSave(st.fetched, st.existingMessageIds, j)
      s1 == [st EXCEPT !.i = n, !.skippedMessages = @ + (n - j)]
  IN  IF n <= Len(st.fetched) THEN CallSave(s1, LoopMessage(s1.fetched, n).id)
      ELSE [s1 EXCEPT !.pc = "endOfLoop"]

\* The timestamp update moved in front of the loop.
UpdateBeforeLoop(st) ==
  LET then(s) == IF s.pc = "endOfLoop" THEN SyncRespond(s) ELSE s
  IN  CASE st.pc = "selectMessageIds" ->
             IF NeedsTimestampUpdate(st.fetched) THEN Call(st, "updateConversation")
             ELSE SyncRespond(st)
        [] st.pc = "updateConversation" -> then(SyncLoop(st, 1))
        [] OTHER -> then(SyncLoop(st, st.i + 1))

\* What the handler does when an awaited call of the pass has completed: the
\* loop, then the timestamp update, then the response.
SyncContinue(st) ==
  LET then(s) == IF s.pc = "endOfLoop" THEN SyncAfterLoop(s) ELSE s
  IN  CASE st.pc = "selectMessageIds" -> then(SyncLoop(st, 1))
        [] st.pc = "saveMessage" -> then(SyncLoop(st, st.i + 1))
        [] OTHER -> SyncRespond(st)

\* The save without its try block: a failure reaches the handler's catch.
AbortOnFailedSave(st) == Respond([st EXCEPT !.failed = @ + 1], ServerError)

\* if (savedMessage) false, or catch (err) of the save: the failure is logged
\* and the loop goes on
AfterFailedSave(st) == SyncContinue([st EXCEPT !.failed = @ + 1])

\* the conversation's row was lost with the error check
MissingOnlyOnError(convError, conversation) == convError

\* if (convError || !conversation)
ConversationMissing(convError, conversation) == convError \/ conversation = NoRow

SyncConversationHistory(p, conversationId) ==
  /\ Idle(p)
  /\ reqs < MaxReqs
  /\ reqs' = reqs + 1
  /\ LET st == Starting(p, "syncOne", conversationId)
     IN  Set(p, IF ~ClientConnected THEN Respond(st, SessionUnavailable)
                ELSE Call(st, "selectConversation"))
  /\ UNCHANGED <<ui, faults, connected, chatMsgs, nextMsgId, conversations, messages, clock>>

SyncSelectConversation(p) ==
  LET st == proc[p] IN
  /\ st.op = "syncOne" /\ st.pc = "selectConversation"
  /\ \E convError \in Outcomes({FALSE}, {TRUE}) :
       LET conversation == IF st.conversationId \in DOMAIN conversations
                           THEN conversations[st.conversationId] ELSE NoRow
       IN  Set(p, IF ConversationMissing(convError, conversation) THEN Respond(st, NotFound)
                  ELSE Call([st EXCEPT !.conversation = conversation], "getChats"))
  /\ UNCHANGED <<ui, faults, connected, chatMsgs, nextMsgId, conversations, messages, clock, reqs>>

SyncGetChats(p) ==
  LET st == proc[p] IN
  /\ st.op = "syncOne" /\ st.pc = "getChats"
  /\ \E outcome \in Outcomes({"ok"}, {"throw"}) :
       LET targetChat == TargetChat(st.conversation)
       IN  Set(p, IF outcome = "throw" THEN Respond(st, ServerError)
                  ELSE IF targetChat = 0 THEN Respond(st, ChatNotFound)
                  ELSE Call([st EXCEPT !.targetChat = targetChat], "fetchMessages"))
  /\ UNCHANGED <<ui, faults, connected, chatMsgs, nextMsgId, conversations, messages, clock, reqs>>

SyncFetchMessages(p) ==
  LET st == proc[p] IN
  /\ st.op = "syncOne" /\ st.pc = "fetchMessages"
  /\ \E outcome \in Outcomes({"ok"}, {"throw"}) :
       Set(p, IF outcome = "throw" THEN Respond(st, ServerError)
              ELSE Call([st EXCEPT !.fetched = FetchMessages(st.targetChat, SingleFetchLimit)],
                        "selectMessageIds"))
  /\ UNCHANGED <<ui, faults, connected, chatMsgs, nextMsgId, conversations, messages, clock, reqs>>

\* data is null when the select failed: existingMessages?.map(..) || []
SyncSelectMessageIds(p) ==
  LET st == proc[p] IN
  /\ st.op = "syncOne" /\ st.pc = "selectMessageIds"
  /\ \E outcome \in Outcomes({"ok"}, {"null", "throw"}) :
       LET existingMessageIds == IF outcome = "ok" THEN SelectMessageIds(st.conversationId)
                                 ELSE {}
       IN  Set(p, IF outcome = "throw" THEN Respond(st, ServerError)
                  ELSE SyncContinue([st EXCEPT !.existingMessageIds = existingMessageIds,
                                               !.lookup = outcome]))
  /\ UNCHANGED <<ui, faults, connected, chatMsgs, nextMsgId, conversations, messages, clock, reqs>>

SyncSaveMessage(p) ==
  LET st  == proc[p]
      msg == LoopMessage(st.fetched, st.i)
  IN
  /\ st.op = "syncOne" /\ st.pc = "saveMessage"
  /\ \E outcome \in Outcomes({"saved"}, {"null", "throw"}) :
       IF outcome = "saved"
       THEN /\ messages' = Append(messages,
                 MessageRow(st.conversationId, msg.fromMe, msg.id, ToStoreTime(msg.timestamp)))
            /\ Set(p, SyncContinue([st EXCEPT !.newMessagesSaved = @ + 1,
                                              !.saved = Append(@, [conv |-> st.conversationId,
                                                                   message_id |-> msg.id])]))
       ELSE /\ UNCHANGED messages
            /\ Set(p, AfterFailedSave(st))
  /\ UNCHANGED <<ui, faults, connected, chatMsgs, nextMsgId, conversations, clock, reqs>>

SyncUpdateConversation(p) ==
  LET st == proc[p] IN
  /\ st.op = "syncOne" /\ st.pc = "updateConversation"
  /\ \E outcome \in Outcomes({"ok"}, {"error", "throw"}) :
       /\ IF outcome = "ok"
          THEN UpdateLastMessageAt(st.conversationId,
                                   ToStoreTime(LatestMessage(st.fetched).timestamp))
          ELSE UNCHANGED conversations
       /\ Set(p, IF outcome = "throw" THEN Respond(st, ServerError) ELSE SyncContinue(st))
  /\ UNCHANGED <<ui, faults, connected, chatMsgs, nextMsgId, messages, clock, reqs>>

\* -------------------------------------------- syncAllConversationsHistory
\* select('*').order('last_message_at', { ascending: false }).limit(200):
\* the most recently active conversations first, ties in any order.
SelectConversations ==
  LET ids == DOMAIN conversations
      n   == IF Cardinality(ids) <= PageLimit THEN Cardinality(ids) ELSE PageLimit
      at(id) == conversations[id].last_message_at
  IN  {[j \in 1..n |-> conversations[order[j]]] :
         order \in {o \in [1..n -> ids] :
                      /\ \A a, b \in 1..n : a < b => o[a] # o[b] /\ at(o[a]) >= at(o[b])
                      /\ \A id \in ids : (\A a \in 1..n : o[a] # id)
                                          => \A a \in 1..n : at(o[a]) >= at(id)}}

BulkResult(st) ==
  [status |-> 200, kind |-> "BulkResult",
   totalNewMessages |-> st.totalNewMessages,
   conversationsSynced |-> st.conversationsSynced,
   totalConversationsChecked |-> Len(st.conversations),
   syncResults |-> st.syncResults]

\* The loop with break in place of continue: it ends at the first
\* conversation without a matching chat.
BulkStopAtMissingChat(st, k) ==
  IF k > Len(st.conversations) THEN Respond([st EXCEPT !.k = k], BulkResult(st))
  ELSE LET conversation == st.conversations[k]
           targetChat   == TargetChat(conversation)
       IN  IF targetChat = 0 THEN Respond([st EXCEPT !.k = k], BulkResult(st))
           ELSE Call([st EXCEPT !.k = k, !.conversation = conversation,
                                !.conversationId = conversation.id,
                                !.targetChat = targetChat,
                                !.fetched = <<>>, !.existingMessageIds = {}, !.i = 0,
                                !.lookup = "none",
                                !.newMessagesForThisConv = 0],
                     "fetchMessages")

\* for (const conversation of conversations): from the k-th conversation to
\* the next await, skipping (continue) those without a matching chat
RECURSIVE BulkFromConversation(_, _)
BulkFromConversation(st, k) ==
  IF k > Len(st.conversations) THEN Respond([st EXCEPT !.k = k], BulkResult(st))
  ELSE LET conversation == st.conversations[k]
           targetChat   == TargetChat(conversation)
       IN  IF targetChat = 0 THEN BulkFromConversation(st, k + 1)
           ELSE Call([st EXCEPT !.k = k, !.conversation = conversation,
                                !.conversationId = conversation.id,
                                !.targetChat = targetChat,
                                !.fetched = <<>>, !.existingMessageIds = {}, !.i = 0,
                                !.lookup = "none",
                                !.newMessagesForThisConv = 0],
                     "fetchMessages")

\* The loop without the conversation's try block: the exception reaches the
\* handler's catch.
BulkAbort(st) == Respond(st, ServerError)

\* catch (err) of the conversation's try block: on to the next conversation
BulkCatch(st) ==
  BulkFromConversation([st EXCEPT !.caught = Append(@, st.conversationId)], st.k + 1)

\* The end of the try block without its test on newMessagesForThisConv: an
\* entry is pushed for every pass that completes.
BulkEndPushingAlways(st) ==
  BulkFromConversation(
    [PassDone(st) EXCEPT
       !.conversationsSynced = @ + 1,
       !.syncResults = Append(@, [conversationId |-> st.conversationId,
                                  newMessages |-> st.newMessagesForThisConv])],
    st.k + 1)

\* the end of the conversation's try block: if (newMessagesForThisConv > 0)
\* the conversation's entry is pushed
BulkEndOfConversation(st) ==
  BulkFromConversation(
    IF st.newMessagesForThisConv > 0
    THEN [PassDone(st) EXCEPT
            !.conversationsSynced = @ + 1,
            !.syncResults = Append(@, [conversationId |-> st.conversationId,
                                       newMessages |-> st.newMessagesForThisConv])]
    ELSE PassDone(st),
    st.k + 1)

\* The timestamp update issued without await: the loop moves on to the next
\* conversation while the update is in flight.
BulkUpdateNotAwaited(st) ==
  IF NeedsTimestampUpdate(st.fetched)
  THEN BulkEndOfConversation(Call(st, "updateConversation"))
  ELSE BulkEndOfConversation(st)

\* after the for loop over the messages: await of the timestamp update, or
\* the end of the conversation's try block
BulkAfterLoop(st) ==
  IF NeedsTimestampUpdate(st.fetched) THEN Call(st, "updateConversation")
  ELSE BulkEndOfConversation(st)

BulkLoopFrom(st, j) ==
  LET n  == NextToSave(st.fetched, st.existingMessageIds, j)
      s1 == [st EXCEPT !.i = n]
  IN  IF n <= Len(st.fetched) THEN CallSave(s1, LoopMessage(s1.fetched, n).id) ELSE BulkAfterLoop(s1)

SyncAllConversationsHistory(p) ==
  /\ p \in BulkProcs
  /\ Idle(p)
  /\ reqs < MaxReqs
  /\ reqs' = reqs + 1
  /\ LET st == Starting(p, "syncAll", 0)
     IN  Set(p, IF ~ClientConnected THEN Respond(st, SessionUnavailable)
                ELSE Call(st, "selectConversations"))
  /\ UNCHANGED <<ui, faults, connected, chatMsgs, nextMsgId, conversations, messages, clock>>

BulkSelectConversations(p) ==
  LET st == proc[p] IN
  /\ st.op = "syncAll" /\ st.pc = "selectConversations"
  /\ \/ \E page \in SelectConversations :
          Set(p, Call([st EXCEPT !.conversations = page], "getChats"))
     \/ (faults /\ Set(p, Respond(st, ServerError)))     \* convError, or a throw
  /\ UNCHANGED <<ui, faults, connected, chatMsgs, nextMsgId, conversations, messages, clock, reqs>>

BulkGetChats(p) ==
  LET st == proc[p] IN
  /\ st.op = "syncAll" /\ st.pc = "getChats"
  /\ \E outcome \in Outcomes({"ok"}, {"throw"}) :
       Set(p, IF outcome = "throw" THEN Respond(st, ServerError)
              ELSE BulkFromConversation(st, 1))
  /\ UNCHANGED <<ui, faults, connected, chatMsgs, nextMsgId, conversations, messages, clock, reqs>>

BulkFetchMessages(p) ==
  LET st == proc[p] IN
  /\ st.op = "syncAll" /\ st.pc = "fetchMessages"
  /\ \E outcome \in Outcomes({"ok"}, {"throw"}) :
       Set(p, IF outcome = "throw" THEN BulkCatch(st)
              ELSE Call([st EXCEPT !.fetched = FetchMessages(st.targetChat, BulkFetchLimit)],
                        "selectMessageIds"))
  /\ UNCHANGED <<ui, faults, connected, chatMsgs, nextMsgId, conversations, messages, clock, reqs>>

BulkSelectMessageIds(p) ==
  LET st == proc[p] IN
  /\ st.op = "syncAll" /\ st.pc = "selectMessageIds"
  /\ \E outcome \in Outcomes({"ok"}, {"null", "throw"}) :
       LET existingMessageIds == IF outcome = "ok" THEN SelectMessageIds(st.conversationId)
                                 ELSE {}
       IN  Set(p, IF outcome = "throw" THEN BulkCatch(st)
                  ELSE BulkLoopFrom([st EXCEPT !.existingMessageIds = existingMessageIds,
                                               !.lookup = outcome], 1))
  /\ UNCHANGED <<ui, faults, connected, chatMsgs, nextMsgId, conversations, messages, clock, reqs>>

BulkSaveMessage(p) ==
  LET st  == proc[p]
      msg == LoopMessage(st.fetched, st.i)
  IN
  /\ st.op = "syncAll" /\ st.pc = "saveMessage"
  /\ \E outcome \in Outcomes({"saved"}, {"null", "throw"}) :
       IF outcome = "saved"
       THEN /\ messages' = Append(messages,
                 MessageRow(st.conversationId, msg.fromMe, msg.id, ToStoreTime(msg.timestamp)))
            /\ Set(p, BulkLoopFrom([st EXCEPT !.newMessagesForThisConv = @ + 1,
                                              !.totalNewMessages = @ + 1,
                                              !.saved = Append(@, [conv |-> st.conversationId,
                                                                   message_id |-> msg.id])],
                                    st.i + 1))
       ELSE /\ UNCHANGED messages
            /\ Set(p, BulkLoopFrom([st EXCEPT !.failed = @ + 1], st.i + 1))
  /\ UNCHANGED <<ui, faults, connected, chatMsgs, nextMsgId, conversations, clock, reqs>>

BulkUpdateConversation(p) ==
  LET st == proc[p] IN
  /\ st.op = "syncAll" /\ st.pc = "updateConversation"
  /\ \E outcome \in Outcomes({"ok"}, {"error", "throw"}) :
       /\ IF outcome = "ok"
          THEN UpdateLastMessageAt(st.conversationId,
                                   ToStoreTime(LatestMessage(st.fetched).timestamp))
          ELSE UNCHANGED conversations
       /\ Set(p, IF outcome = "throw" THEN BulkCatch(st) ELSE BulkEndOfConversation(st))
  /\ UNCHANGED <<ui, faults, connected, chatMsgs, nextMsgId, messages, clock, reqs>>

BulkStep(p) ==
  \/ SyncAllConversationsHistory(p)
  \/ BulkSelectConversations(p)
  \/ BulkGetChats(p)
  \/ BulkFetchMessages(p)
  \/ BulkSelectMessageIds(p)
  \/ BulkSaveMessage(p)
  \/ BulkUpdateConversation(p)

\* ------------------------------------------------------------ sendMessage
\* --------------------------------------------------- the browser's state
\* An identifier of the messaging session and a key of the messages table
\* are strings of different shapes: they are kept apart by a tag.
SessionId(n) == <<"wa", n>>
StoreId(n) == <<"db", n>>

\* message_id of a list entry that has none (undefined)
NoId == <<>>

\* WhatsAppProvider before the page is open: the useState initial values,
\* no timer, no request in flight
ProviderUnmounted ==
  [mounted |-> FALSE, status |-> "disconnected", qrCode |-> "", lastChecked |-> <<>>,
   isRefreshing |-> FALSE, initialCheckTimer |-> FALSE, interval |-> FALSE,
   requests |-> <<>>]

\* sendError when it is null; an error text is never empty
\* (result.error || "..", err.message || "..")
NoError == ""

\* useMessages before the page is open: the useState initial values, no
\* interval, no load and no send in flight, no socket
Unmounted ==
  [mounted |-> FALSE, selectedConversation |-> 0, autoRefresh |-> FALSE,
   messagesForSelectedChat |-> <<>>,
   loadingMessages |-> FALSE, isRefreshing |-> FALSE,
   sendingMessage |-> FALSE, sendError |-> NoError,
   interval |-> 0, loads |-> <<>>, sends |-> <<>>, events |-> <<>>,
   provider |-> ProviderUnmounted]

\* formattedMessage: the object sendMessage broadcasts for the row it saved.
\* Timestamps of list entries are kept in the store's milliseconds (the code
\* divides them all by 1000).
FormattedMessage(st, savedMessage) ==
  [id |-> StoreId(savedMessage.id), message_id |-> SessionId(st.sentMessageId),
   conversation_id |-> st.conversationId, timestamp |-> savedMessage.timestamp]

\* io.emit('new_message', ..): to every connected client
Emit(message) ==
  ui' = IF ui.mounted THEN [ui EXCEPT !.events = Append(@, message)] ELSE ui

BadRequest == [status |-> 400, kind |-> "BadRequest"]

SendResult(st) ==
  [status |-> 200, kind |-> "SendResult", messageId |-> st.sentMessageId,
   conversationId |-> st.conversationId]

\* findOrCreateConversation(number, vehicleId, userId): the conversation
\* whose phone number is `number`, NoRow when there is none yet
FindConversation(number) ==
  LET hits == {id \in DOMAIN conversations : conversations[id].phone_number = number}
  IN  IF hits = {} THEN NoRow ELSE conversations[Min(hits)]

\* sendWhatsAppMessage(number, ..): the chat the message is sent to
ChatOfNumber(number) ==
  Min({c \in ChatIdx : Replace(Chats[c], Suffix) = Replace(number, Suffix)})

\* The handler without its check of the request body.
SendMessageUnvalidated(p, number, message) ==
  /\ Idle(p)
  /\ reqs < MaxReqs
  /\ reqs' = reqs + 1
  /\ Set(p, Call([Starting(p, "send", 0) EXCEPT !.number = number, !.message = message],
                 "findOrCreateConversation"))
  /\ UNCHANGED <<ui, faults, connected, chatMsgs, nextMsgId, conversations, messages, clock>>

SendMessage(p, number, message) ==
  /\ Idle(p)
  /\ reqs < MaxReqs
  /\ reqs' = reqs + 1
  /\ LET st == [Starting(p, "send", 0) EXCEPT !.number = number, !.message = message]
     IN  Set(p, IF number = <<>> \/ message = "" THEN Respond(st, BadRequest)
                ELSE Call(st, "findOrCreateConversation"))
  /\ UNCHANGED <<ui, faults, connected, chatMsgs, nextMsgId, conversations, messages, clock>>

SendFindOrCreateConversation(p) ==
  LET st    == proc[p]
      found == FindConversation(st.number)
      made  == [id |-> NewConvId, phone_number |-> st.number,
                last_message_at |-> ClockToStoreTime(clock)]
      go(conversation) ==
        Set(p, Call([st EXCEPT !.conversation = conversation,
                               !.conversationId = conversation.id],
                    "sendWhatsAppMessage"))
  IN
  /\ st.op = "send" /\ st.pc = "findOrCreateConversation"
  /\ \/ /\ found # NoRow
        /\ go(found)
        /\ UNCHANGED conversations
     \/ /\ found = NoRow
        /\ conversations' = [id \in DOMAIN conversations \cup {NewConvId} |->
                               IF id = NewConvId THEN made ELSE conversations[id]]
        /\ go(made)
     \/ /\ faults                                \* no conversation, or a throw
        /\ Set(p, Respond(st, ServerError))
        /\ UNCHANGED conversations
  /\ UNCHANGED <<ui, faults, connected, chatMsgs, nextMsgId, messages, clock, reqs>>

\* The session stamps the sent message with the time in seconds; the
\* arguments of the saveMessage call, new Date() among them, are evaluated
\* when the call is issued.
SendWhatsAppMessage(p) ==
  LET st == proc[p]
      c  == ChatOfNumber(st.number)
  IN
  /\ st.op = "send" /\ st.pc = "sendWhatsAppMessage"
  /\ \/ /\ nextMsgId <= MaxMsgs
        /\ chatMsgs' = [chatMsgs EXCEPT ![c] =
                          Append(@, [id |-> nextMsgId, timestamp |-> clock \div 2,
                                     fromMe |-> TRUE])]
        /\ nextMsgId' = nextMsgId + 1
        /\ Set(p, Call([st EXCEPT !.sentMessageId = nextMsgId,
                                  !.timestamp = ClockToStoreTime(clock)],
                       "saveMessage"))
     \/ /\ faults
        /\ Set(p, Respond(st, ServerError))
        /\ UNCHANGED <<chatMsgs, nextMsgId>>
  /\ UNCHANGED <<ui, faults, connected, conversations, messages, clock, reqs>>

SendSaveMessage(p) ==
  LET st == proc[p] IN
  /\ st.op = "send" /\ st.pc = "saveMessage"
  /\ \E outcome \in Outcomes({"saved"}, {"null", "throw"}) :
       IF outcome = "saved"
       THEN /\ messages' = Append(messages,
                 MessageRow(st.conversationId, TRUE, st.sentMessageId, st.timestamp))
            /\ Set(p, Call([st EXCEPT !.timestamp = ClockToStoreTime(clock),
                                      !.savedId = Len(messages) + 1,
                                      !.saved = Append(@, [conv |-> st.conversationId,
                                                           message_id |-> st.sentMessageId])],
                           "updateConversation"))
       ELSE /\ UNCHANGED messages
            /\ Set(p, Respond([st EXCEPT !.failed = @ + 1],
                              IF outcome = "null" THEN SendResult(st) ELSE ServerError))
  /\ UNCHANGED <<ui, faults, connected, chatMsgs, nextMsgId, conversations, clock, reqs>>

\* io.emit('new_message', ..) follows the update; the conversations of the
\* model have no vehicle_id, so the vehicle calls are skipped.
SendUpdateConversation(p) ==
  LET st == proc[p] IN
  /\ st.op = "send" /\ st.pc = "updateConversation"
  /\ \E outcome \in Outcomes({"ok"}, {"error", "throw"}) :
       /\ IF outcome = "ok" THEN UpdateLastMessageAt(st.conversationId, st.timestamp)
          ELSE UNCHANGED conversations
       /\ Set(p, IF outcome = "throw" THEN Respond(st, ServerError)
                  ELSE Respond([st EXCEPT !.calls = Append(@, [call |-> "emit",
                                                              conv |-> st.conversationId])],
                               SendResult(st)))
       /\ IF outcome = "throw" THEN UNCHANGED ui
          ELSE Emit(FormattedMessage(st, messages[st.savedId]))
  /\ UNCHANGED <<faults, connected, chatMsgs, nextMsgId, messages, clock, reqs>>

SendStep(p) ==
  \/ \E number \in Numbers, message \in {"", "text"} : SendMessage(p, number, message)
  \/ SendFindOrCreateConversation(p)
  \/ SendWhatsAppMessage(p)
  \/ SendSaveMessage(p)
  \/ SendUpdateConversation(p)

\* ------------------------------------------------------------ environment
\* A message arrives in a chat of the session, stamped by its sender with a
\* time that is not in the future.  The handlers read a chat's
\* messages only when a fetchMessages call completes, so an arrival at any
\* other time is indistinguishable from one while the next fetch is pending:
\* only those are generated.  Chat 3 has no conversation that sync can match,
\* so its content is never read.
SessionReceive(c, timestamp) ==
  /\ \E p \in Procs : proc[p].pc = "fetchMessages"
  /\ nextMsgId <= MaxMsgs
  /\ chatMsgs' = [chatMsgs EXCEPT ![c] =
                    Append(@, [id |-> nextMsgId, timestamp |-> timestamp, fromMe |-> FALSE])]
  /\ nextMsgId' = nextMsgId + 1
  /\ UNCHANGED <<ui, faults, connected, conversations, messages, clock, proc, reqs>>

\* The session connects or drops.  Its state is read only in the first
\* statement of a handler, so only the changes made while a request can start
\* are generated.
SessionToggle ==
  /\ \E p \in Procs : proc[p].pc = "idle"
  /\ connected' = ~connected
  /\ UNCHANGED <<ui, faults, chatMsgs, nextMsgId, conversations, messages, clock, proc, reqs>>

\* the slot of a handler that has returned: its locals are gone
Returned(st) ==
  [Fresh EXCEPT !.prev =
     IF st.op = "syncOne" /\ st.response.kind = "SyncResult" /\ st.failed = 0
     THEN [op |-> "syncOne", conversationId |-> st.conversationId, fetched |-> st.fetched]
     ELSE [op |-> "none"]]

\* The handler has returned and the slot is free.  The response of a request
\* of the browser, a load's sync or a send, is taken by the call that made it.
Return(p) ==
  /\ proc[p].pc = "done"
  /\ \A l \in DOMAIN ui.loads : ui.loads[l].slot # p
  /\ \A s \in DOMAIN ui.sends : ui.sends[s].slot # p
  /\ Set(p, Returned(proc[p]))
  /\ UNCHANGED <<ui, faults, connected, chatMsgs, nextMsgId, conversations, messages, clock, reqs>>

\* A single-conversation sync in flight is abandoned at the call it awaits
\* (the caller's deadline, a stop of the process): it issues no further call
\* and what it wrote stays.
Abandon(p) ==
  /\ proc[p].op = "syncOne"
  /\ proc[p].pc \notin {"idle", "done", "off"}
  /\ Set(p, [Fresh EXCEPT !.prev = [op |-> "abandoned",
                                    conversationId |-> proc[p].conversationId,
                                    fetched |-> proc[p].fetched]])
  /\ UNCHANGED <<ui, faults, connected, chatMsgs, nextMsgId, conversations, messages, clock, reqs>>

\* Time passes.  The clock is read when a message arrives or is sent and
\* when sendMessage issues its saveMessage call and its timestamp update, so
\* only the ticks just before those reads are generated.
Tick ==
  /\ \E p \in Procs : \/ proc[p].pc = "fetchMessages"
                        \/ (proc[p].op = "send" /\ proc[p].pc # "done")
  /\ clock < MaxClock
  /\ clock' = clock + 1
  /\ UNCHANGED <<ui, faults, connected, chatMsgs, nextMsgId, conversations, messages, proc, reqs>>

InitWith(slots, mayFail) ==
  /\ faults = mayFail
  /\ connected \in BOOLEAN
  /\ chatMsgs = [c \in ChatIdx |-> <<>>]
  /\ nextMsgId = 1
  /\ conversations = InitConversations
  /\ messages = <<>>
  /\ clock = 0
  /\ proc = [p \in Procs |-> IF p \in slots THEN Fresh ELSE [Fresh EXCEPT !.pc = "off"]]
  /\ reqs = 0
  /\ ui = Unmounted

SyncStep(p) ==
  \/ \E id \in RequestIds : SyncConversationHistory(p, id)
  \/ SyncSelectConversation(p)
  \/ SyncGetChats(p)
  \/ SyncFetchMessages(p)
  \/ SyncSelectMessageIds(p)
  \/ SyncSaveMessage(p)
  \/ SyncUpdateConversation(p)

Environment ==
  \/ \E c \in {1, 2}, t \in 0..(clock \div 2) : SessionReceive(c, t)
  \/ SessionToggle
  \/ Tick

Next ==
  \/ Environment
  \/ \E p \in Procs : SyncStep(p) \/ BulkStep(p) \/ SendStep(p) \/ Return(p) \/ Abandon(p)

\* Requests do not overlap: the server handles one request at a time, each
\* run to its response before the next starts (slot 2 is never used).  Calls
\* to the store and the session may fail.
Init == InitWith({1}, TRUE)

Spec == Init /\ [][Next]_vars

\* Requests overlap: both slots serve requests, and a handler suspended at an
\* await lets the other run.  Slot 2 serves single-conversation syncs and
\* sends, so a single sync overlaps a single sync, a bulk sync or a send.
\* The store and the session are healthy: what goes wrong here is the
\* interleaving alone.
InitOverlap == InitWith(Procs, FALSE)

SpecOverlap == InitOverlap /\ [][Next]_vars

\* ------------------------------------------------- the useMessages hook
\* fetchedMessages.sort((a, b) => a.timestamp - b.timestamp): the sort is
\* stable; an entry goes after the entries that are not later than it
RECURSIVE InsertByTimestamp(_, _)
InsertByTimestamp(sorted, m) ==
  IF sorted = <<>> THEN <<m>>
  ELSE IF sorted[Len(sorted)].timestamp <= m.timestamp THEN Append(sorted, m)
  ELSE Append(InsertByTimestamp(SubSeq(sorted, 1, Len(sorted) - 1), m), sorted[Len(sorted)])

RECURSIVE SortByTimestamp(_)
SortByTimestamp(list) ==
  IF list = <<>> THEN <<>>
  ELSE InsertByTimestamp(SortByTimestamp(SubSeq(list, 1, Len(list) - 1)), list[Len(list)])

\* GET /api/conversations/:id : the conversation with its message rows
ConversationMessages(conversationUUID) ==
  SelectSeq(messages, LAMBDA row : row.conversation_id = conversationUUID)

\* response.data.messages.map(..): the list entry of a message row
AppMessage(conversationUUID, msg) ==
  [id |-> IF msg.message_id # 0 THEN SessionId(msg.message_id) ELSE StoreId(msg.id),
   message_id |-> NoId,
   conversation_id |-> conversationUUID,
   timestamp |-> msg.timestamp]

\* The list of a response mapped and left in the order of the response.
FetchedMessagesUnsorted(conversationUUID) ==
  LET rows == ConversationMessages(conversationUUID)
  IN  [j \in 1..Len(rows) |-> AppMessage(conversationUUID, rows[j])]

\* the list a load sets from a response: mapped, then sorted
FetchedMessages(conversationUUID) ==
  LET rows == ConversationMessages(conversationUUID)
  IN  SortByTimestamp([j \in 1..Len(rows) |-> AppMessage(conversationUUID, rows[j])])

\* useCallback(.., []): fetchMessagesForChat is the function of the first
\* render for the hook's whole life, and the isRefreshing it reads is the
\* value of that render, the useState initial value
FetchClosure == [isRefreshing |-> Unmounted.isRefreshing]

\* the smallest number no call in flight carries: it names a call from its
\* start to its end
FreeTag(calls) ==
  Min({n \in 1..(Len(calls) + 1) : \A j \in 1..Len(calls) : calls[j].tag # n})

\* the calls in flight with one more; they are listed by tag
WithCall(calls, call) ==
  SelectSeq(calls, LAMBDA c : c.tag < call.tag) \o <<call>>
    \o SelectSeq(calls, LAMBDA c : c.tag > call.tag)

\* fetchMessagesForChat(conversationUUID) up to its first await
FetchMessagesForChat(u, conversationUUID) ==
  IF conversationUUID = 0 \/ FetchClosure.isRefreshing THEN u
  ELSE [u EXCEPT !.isRefreshing = TRUE, !.loadingMessages = TRUE,
                 !.sendError = NoError,
                 !.loads = WithCall(@, [conversationUUID |-> conversationUUID,
                                        pc |-> "get", slot |-> 0,
                                        tag |-> FreeTag(u.loads)])]

\* the sequence without its l-th element
Without(seq, l) == SubSeq(seq, 1, l - 1) \o SubSeq(seq, l + 1, Len(seq))

\* finally { setLoadingMessages(false); setIsRefreshing(false) } and the end
\* of the call
Finish(u, l) ==
  [u EXCEPT !.loadingMessages = FALSE, !.isRefreshing = FALSE, !.loads = Without(@, l)]

\* the conversations the user can select
Selectable == {1, 2}

\* the page opens: the hook's first render, without a selected conversation
Mount ==
  /\ ~ui.mounted
  /\ \E autoRefresh \in BOOLEAN :
       ui' = [Unmounted EXCEPT !.mounted = TRUE, !.autoRefresh = autoRefresh]
  /\ UNCHANGED <<faults, connected, chatMsgs, nextMsgId, conversations, messages, clock, proc, reqs>>

\* selectedConversation changes and the effect runs again: the interval is
\* cleared, the conversation's messages are loaded and, with autoRefresh, a
\* new interval is set
SelectConversation(c) ==
  /\ ui.mounted
  /\ c # ui.selectedConversation
  /\ Len(ui.loads) < MaxLoads
  /\ ui' = FetchMessagesForChat([ui EXCEPT !.selectedConversation = c,
                                          !.interval = IF ui.autoRefresh THEN c ELSE 0],
                                c)
  /\ UNCHANGED <<faults, connected, chatMsgs, nextMsgId, conversations, messages, clock, proc, reqs>>

\* the interval fires: its callback loads the conversation of its effect
IntervalTick ==
  /\ ui.interval # 0
  /\ Len(ui.loads) < MaxLoads
  /\ ui' = FetchMessagesForChat(ui, ui.interval)
  /\ UNCHANGED <<faults, connected, chatMsgs, nextMsgId, conversations, messages, clock, proc, reqs>>

RefreshMessages ==
  /\ ui.selectedConversation # 0
  /\ Len(ui.loads) < MaxLoads
  /\ ui' = FetchMessagesForChat(ui, ui.selectedConversation)
  /\ UNCHANGED <<faults, connected, chatMsgs, nextMsgId, conversations, messages, clock, proc, reqs>>

\* the first GET of a load completes: the list is set; an empty list makes
\* the load request a sync of the conversation.  A response without messages
\* and a failed request empty the list.
LoadGetResponse(l) ==
  LET load == ui.loads[l]
      fetchedMessages == FetchedMessages(load.conversationUUID)
  IN
  /\ l \in DOMAIN ui.loads
  /\ load.pc = "get"
  /\ \E outcome \in {"ok", "throw"} :
       ui' = IF outcome = "throw"
             THEN Finish([ui EXCEPT !.messagesForSelectedChat = <<>>], l)
             ELSE IF fetchedMessages = <<>>
             THEN [ui EXCEPT !.messagesForSelectedChat = fetchedMessages,
                             !.loads[l].pc = "post"]
             ELSE Finish([ui EXCEPT !.messagesForSelectedChat = fetchedMessages], l)
  /\ UNCHANGED <<faults, connected, chatMsgs, nextMsgId, conversations, messages, clock, proc, reqs>>

\* POST /api/whatsapp/sync-conversation/:id reaches the server, which starts
\* syncConversationHistory, or fails on its way (catch (syncError))
LoadPostSync(l) ==
  LET load == ui.loads[l] IN
  /\ l \in DOMAIN ui.loads
  /\ load.pc = "post"
  /\ \/ \E p \in Procs :
          /\ Idle(p)
          /\ reqs < MaxReqs
          /\ reqs' = reqs + 1
          /\ LET st == Starting(p, "syncOne", load.conversationUUID)
             IN  Set(p, IF ~ClientConnected THEN Respond(st, SessionUnavailable)
                        ELSE Call(st, "selectConversation"))
          /\ ui' = [ui EXCEPT !.loads[l].pc = "sync", !.loads[l].slot = p]
     \/ /\ ui' = Finish(ui, l)
        /\ UNCHANGED <<proc, reqs>>
  /\ UNCHANGED <<faults, connected, chatMsgs, nextMsgId, conversations, messages, clock>>

\* The sync's response without the inner try and catch: a failed sync is an
\* error of the load, which empties the list.
LoadSyncResponseUncaught(l) ==
  LET load == ui.loads[l]
      st   == proc[load.slot]
  IN
  /\ l \in DOMAIN ui.loads
  /\ load.pc = "sync"
  /\ st.pc = "done"
  /\ ui' = IF st.response.kind = "SyncResult" /\ st.response.newMessagesSaved > 0
           THEN [ui EXCEPT !.loads[l].pc = "retry", !.loads[l].slot = 0]
           ELSE IF st.response.status # 200
           THEN Finish([ui EXCEPT !.messagesForSelectedChat = <<>>], l)
           ELSE Finish(ui, l)
  /\ Set(load.slot, Returned(st))
  /\ UNCHANGED <<faults, connected, chatMsgs, nextMsgId, conversations, messages, clock, reqs>>

\* the sync's response arrives: a second GET when it reports new messages;
\* any status other than 200 is an exception of the request
LoadSyncResponse(l) ==
  LET load == ui.loads[l]
      st   == proc[load.slot]
  IN
  /\ l \in DOMAIN ui.loads
  /\ load.pc = "sync"
  /\ st.pc = "done"
  /\ ui' = IF st.response.kind = "SyncResult" /\ st.response.newMessagesSaved > 0
           THEN [ui EXCEPT !.loads[l].pc = "retry", !.loads[l].slot = 0]
           ELSE Finish(ui, l)
  /\ Set(load.slot, Returned(st))
  /\ UNCHANGED <<faults, connected, chatMsgs, nextMsgId, conversations, messages, clock, reqs>>

\* the second GET completes: the list is set again; its failure is caught with
\* the sync's and leaves the list
LoadRetryResponse(l) ==
  LET load == ui.loads[l] IN
  /\ l \in DOMAIN ui.loads
  /\ load.pc = "retry"
  /\ \E outcome \in {"ok", "throw"} :
       ui' = IF outcome = "throw" THEN Finish(ui, l)
             ELSE Finish([ui EXCEPT !.messagesForSelectedChat =
                                      FetchedMessages(load.conversationUUID)], l)
  /\ UNCHANGED <<faults, connected, chatMsgs, nextMsgId, conversations, messages, clock, proc, reqs>>

\* prev.some((m) => m.id === message.id ||
\*                  (m.message_id && m.message_id === message.message_id))
IsDuplicateEntry(prev, message) ==
  \E j \in 1..Len(prev) :
    \/ prev[j].id = message.id
    \/ (prev[j].message_id # NoId /\ prev[j].message_id = message.message_id)

\* a new_message event reaches the page and its handler calls
\* addIncomingMessage
AddIncomingMessage ==
  LET message == Head(ui.events)
      prev    == ui.messagesForSelectedChat
  IN
  /\ ui.events # <<>>
  /\ ui' = IF ui.selectedConversation # 0
              /\ message.conversation_id = ui.selectedConversation
              /\ ~IsDuplicateEntry(prev, message)
           THEN [ui EXCEPT !.events = Tail(@),
                           !.messagesForSelectedChat = SortByTimestamp(Append(prev, message))]
           ELSE [ui EXCEPT !.events = Tail(@)]
  /\ UNCHANGED <<faults, connected, chatMsgs, nextMsgId, conversations, messages, clock, proc, reqs>>

HookStep ==
  \/ Mount
  \/ \E c \in Selectable : SelectConversation(c)
  \/ IntervalTick
  \/ RefreshMessages
  \/ \E l \in 1..MaxLoads :
       LoadGetResponse(l) \/ LoadPostSync(l) \/ LoadSyncResponse(l) \/ LoadRetryResponse(l)
  \/ AddIncomingMessage

\* the steps of a sync that has started
SyncProgress(p) ==
  \/ SyncSelectConversation(p)
  \/ SyncGetChats(p)
  \/ SyncFetchMessages(p)
  \/ SyncSelectMessageIds(p)
  \/ SyncSaveMessage(p)
  \/ SyncUpdateConversation(p)

\* The session stays as the page found it, connected or not.
NextHook ==
  \/ HookStep
  \/ \E c \in {1, 2}, t \in 0..(clock \div 2) : SessionReceive(c, t)
  \/ Tick
  \/ \E p \in Procs : SyncProgress(p) \/ SendStep(p) \/ Return(p)

\* One page with the hook, and a server that handles one request at a time
\* and whose calls do not fail: the syncs the page requests and the sends of
\* any client.
InitHook == InitWith({1}, FALSE)

SpecHook == InitHook /\ [][NextHook]_vars

\* --------------------------------------------------- the status provider
\* getStatus: res.json(getWhatsAppStatus())
WhatsAppStatus == IF connected THEN "connected" ELSE "disconnected"

\* getQrCode: the code the service holds while it waits to be scanned, 404
\* when it has none
QRCode == IF connected THEN "" ELSE "qr"

\* useEffect(.., []): the timers call the refreshStatus of the first render,
\* whose isRefreshing is the useState initial value
TimerClosure == [isRefreshing |-> ProviderUnmounted.isRefreshing]

\* refreshStatus up to its await, with the isRefreshing its closure holds;
\* by is the caller, a timer or a consumer
RefreshStatus(w, isRefreshing, by) ==
  IF isRefreshing THEN w
  ELSE [w EXCEPT !.isRefreshing = TRUE,
                 !.requests = Append(@, [kind |-> "status", by |-> by])]

\* The status request is given up after 5 seconds (timeout: 5000) and the
\* timers fire 5 and 60, 120, .. seconds after the mount: when a timer fires,
\* the request of the timer before it is over.
TimerRequestOver(w) ==
  \A r \in DOMAIN w.requests : ~(w.requests[r].kind = "status" /\ w.requests[r].by = "timer")

\* the provider's first render and its effect: both timers are set
ProviderMount ==
  /\ ~ui.provider.mounted
  /\ ui' = [ui EXCEPT !.provider = [ProviderUnmounted EXCEPT !.mounted = TRUE,
                                                              !.initialCheckTimer = TRUE,
                                                              !.interval = TRUE]]
  /\ UNCHANGED <<faults, connected, chatMsgs, nextMsgId, conversations, messages, clock, proc, reqs>>

\* setTimeout(() => { refreshStatus() }, 5000) fires
InitialCheck ==
  /\ ui.provider.initialCheckTimer
  /\ Len(ui.provider.requests) < MaxFetches
  /\ ui' = [ui EXCEPT !.provider =
              RefreshStatus([@ EXCEPT !.initialCheckTimer = FALSE],
                            TimerClosure.isRefreshing, "timer")]
  /\ UNCHANGED <<faults, connected, chatMsgs, nextMsgId, conversations, messages, clock, proc, reqs>>

\* setInterval(refreshStatus, REFRESH_INTERVAL) fires
StatusInterval ==
  /\ ui.provider.interval
  /\ ~ui.provider.initialCheckTimer
  /\ TimerRequestOver(ui.provider)
  /\ Len(ui.provider.requests) < MaxFetches
  /\ ui' = [ui EXCEPT !.provider = RefreshStatus(@, TimerClosure.isRefreshing, "timer")]
  /\ UNCHANGED <<faults, connected, chatMsgs, nextMsgId, conversations, messages, clock, proc, reqs>>

\* a consumer calls the refreshStatus of the context, the function of the
\* latest render
ConsumerRefreshStatus ==
  /\ ui.provider.mounted
  /\ Len(ui.provider.requests) < MaxFetches
  /\ ui' = [ui EXCEPT !.provider = RefreshStatus(@, ui.provider.isRefreshing, "consumer")]
  /\ UNCHANGED <<faults, connected, chatMsgs, nextMsgId, conversations, messages, clock, proc, reqs>>

\* a consumer calls forceRefreshQrCode
ForceRefreshQrCode ==
  /\ ui.provider.mounted
  /\ Len(ui.provider.requests) < MaxFetches
  /\ ui' = [ui EXCEPT !.provider.requests = Append(@, [kind |-> "qrcode", by |-> "consumer"])]
  /\ UNCHANGED <<faults, connected, chatMsgs, nextMsgId, conversations, messages, clock, proc, reqs>>

\* GET /api/whatsapp/status completes, or fails (timeout, network): the
\* status and lastChecked are set, fetchQrCode() is started without await
\* when the session is disconnected, and finally isRefreshing is cleared
StatusResponse(r) ==
  LET w    == ui.provider
      rest == Without(w.requests, r)
  IN
  /\ r \in DOMAIN w.requests
  /\ w.requests[r].kind = "status"
  /\ \E outcome \in {"ok", "throw"} :
       ui' = [ui EXCEPT !.provider =
                IF outcome = "throw"
                THEN [w EXCEPT !.lastChecked = <<clock>>, !.isRefreshing = FALSE,
                               !.requests = rest]
                ELSE [w EXCEPT !.status = WhatsAppStatus, !.lastChecked = <<clock>>,
                               !.isRefreshing = FALSE,
                               !.requests =
                                 IF WhatsAppStatus = "disconnected"
                                 THEN Append(rest, [kind |-> "qrcode", by |-> w.requests[r].by])
                                 ELSE rest]]
  /\ UNCHANGED <<faults, connected, chatMsgs, nextMsgId, conversations, messages, clock, proc, reqs>>

\* GET /api/whatsapp/qrcode completes: the code is set when there is one
QrCodeResponse(r) ==
  LET w == ui.provider IN
  /\ r \in DOMAIN w.requests
  /\ w.requests[r].kind = "qrcode"
  /\ ui' = [ui EXCEPT !.provider =
              [w EXCEPT !.qrCode = IF QRCode # "" THEN QRCode ELSE @,
                        !.requests = Without(@, r)]]
  /\ UNCHANGED <<faults, connected, chatMsgs, nextMsgId, conversations, messages, clock, proc, reqs>>

ProviderStep ==
  \/ ProviderMount
  \/ InitialCheck
  \/ StatusInterval
  \/ ConsumerRefreshStatus
  \/ ForceRefreshQrCode
  \/ \E r \in 1..MaxFetches : StatusResponse(r) \/ QrCodeResponse(r)

NextStatus == ProviderStep \/ SessionToggle

\* One page with the provider, and a session that connects and drops.
InitStatus == InitWith({1}, FALSE)

SpecStatus == InitStatus /\ [][NextStatus]_vars

\* ------------------------------------------------ sending from the page
\* sendWhatsAppMessage of messageService: the result it returns for the
\* response of POST /api/whatsapp/send.  Any status other than 2xx, and a
\* request that got no response, is an exception of axios.post, which the
\* service catches: it never throws.
SendMessageResult(response) ==
  IF response.status = 200 THEN [success |-> TRUE, error |-> NoError]
  ELSE [success |-> FALSE, error |-> "error"]

NoResponse == [status |-> 0, kind |-> "NoResponse"]

\* The end of handleSendMessage with setSendingMessage(false) after a
\* successful send only, not in a finally block.
SendFinishedWithoutFinally(u, s, result) ==
  [u EXCEPT !.sendError = IF result.success THEN @ ELSE result.error,
            !.sendingMessage = IF result.success THEN FALSE ELSE @,
            !.sends = Without(@, s)]

\* handleSendMessage from the result of the awaited service call to its end
SendFinished(u, s, result) ==
  [u EXCEPT !.sendError = IF result.success THEN @ ELSE result.error,
            !.sendingMessage = FALSE,
            !.sends = Without(@, s)]

\* handleSendMessage(text) up to its await: it is the function of the latest
\* render and sends to the selected conversation's phone number
HandleSendMessage(text) ==
  /\ ui.mounted
  /\ Len(ui.sends) < MaxSends
  /\ ui' = IF ui.selectedConversation = 0
           THEN [ui EXCEPT !.sendError = "Aucune conversation"]
           ELSE IF text = "" THEN ui
           ELSE [ui EXCEPT !.sendingMessage = TRUE, !.sendError = NoError,
                           !.sends = WithCall(@,
                              [number |-> conversations[ui.selectedConversation].phone_number,
                               text |-> text, pc |-> "post", slot |-> 0,
                               tag |-> FreeTag(ui.sends)])]
  /\ UNCHANGED <<faults, connected, chatMsgs, nextMsgId, conversations, messages, clock, proc, reqs>>

\* POST /api/whatsapp/send reaches the server, which starts sendMessage, or
\* fails on its way
SendPost(s) ==
  LET send == ui.sends[s] IN
  /\ s \in DOMAIN ui.sends
  /\ send.pc = "post"
  /\ \/ \E p \in Procs :
          /\ Idle(p)
          /\ reqs < MaxReqs
          /\ reqs' = reqs + 1
          /\ LET st == [Starting(p, "send", 0) EXCEPT !.number = send.number,
                                                      !.message = send.text]
             IN  Set(p, IF send.number = <<>> \/ send.text = "" THEN Respond(st, BadRequest)
                        ELSE Call(st, "findOrCreateConversation"))
          /\ ui' = [ui EXCEPT !.sends[s].pc = "sent", !.sends[s].slot = p]
     \/ /\ ui' = SendFinished(ui, s, SendMessageResult(NoResponse))
        /\ UNCHANGED <<proc, reqs>>
  /\ UNCHANGED <<faults, connected, chatMsgs, nextMsgId, conversations, messages, clock>>

\* the response of sendMessage arrives: the service returns its result and
\* handleSendMessage ends
SendResponse(s) ==
  LET send == ui.sends[s]
      st   == proc[send.slot]
  IN
  /\ s \in DOMAIN ui.sends
  /\ send.pc = "sent"
  /\ st.pc = "done"
  /\ ui' = SendFinished(ui, s, SendMessageResult(st.response))
  /\ Set(send.slot, Returned(st))
  /\ UNCHANGED <<faults, connected, chatMsgs, nextMsgId, conversations, messages, clock, reqs>>

\* the steps of a sendMessage that has started
SendProgress(p) ==
  \/ SendFindOrCreateConversation(p)
  \/ SendWhatsAppMessage(p)
  \/ SendSaveMessage(p)
  \/ SendUpdateConversation(p)

\* The user opens conversation 1, refreshes it and sends messages to it.
NextPage ==
  \/ Mount
  \/ SelectConversation(1)
  \/ IntervalTick
  \/ RefreshMessages
  \/ \E l \in 1..MaxLoads :
       LoadGetResponse(l) \/ LoadPostSync(l) \/ LoadSyncResponse(l) \/ LoadRetryResponse(l)
  \/ AddIncomingMessage
  \/ \E text \in {"", "text"} : HandleSendMessage(text)
  \/ \E s \in 1..MaxSends : SendPost(s) \/ SendResponse(s)
  \/ \E p \in Procs : SyncProgress(p) \/ SendProgress(p)

\* One page with the hook, whose requests are the only ones the server gets;
\* calls to the store and the session may fail.  No message arrives from
\* outside: the session's chats hold what the page has sent.
InitPage == InitWith({1}, TRUE)

\* the next step of the load, of the send, that carries tag n
LoadStep(n) ==
  \E l \in 1..MaxLoads :
    /\ l \in DOMAIN ui.loads
    /\ ui.loads[l].tag = n
    /\ (LoadGetResponse(l) \/ LoadPostSync(l) \/ LoadSyncResponse(l) \/ LoadRetryResponse(l))

SendCallStep(n) ==
  \E s \in 1..MaxSends :
    /\ s \in DOMAIN ui.sends
    /\ ui.sends[s].tag = n
    /\ (SendPost(s) \/ SendResponse(s))

ServerStep == \E p \in Procs : SyncProgress(p) \/ SendProgress(p)

\* A request of the page that is in flight gets its response or fails, and a
\* handler that awaits a call of the store or the session gets its outcome.
FairPage ==
  /\ \A n \in 1..MaxLoads : WF_vars(LoadStep(n))
  /\ \A n \in 1..MaxSends : WF_vars(SendCallStep(n))
  /\ WF_vars(ServerStep)

SpecPage == InitPage /\ [][NextPage]_vars /\ FairPage

\* ------------------------------------------------------------- properties
Rows == 1..Len(messages)

\* two rows of the messages table for one message of one conversation
SameMessage(a, b) ==
  /\ a # b
  /\ messages[a].conversation_id = messages[b].conversation_id
  /\ messages[a].message_id = messages[b].message_id

\* C1: whatever the interleaving of overlapping syncs of a conversation, the
\* store never holds two message rows with the same (conversation_id,
\* message_id) pair.  Stated for the received messages, which only the syncs
\* persist, while requests overlap and no call fails.
C1_NoDuplicateRowsUnderOverlap ==
  \A a, b \in Rows : ~messages[a].is_from_me => ~SameMessage(a, b)

\* C2: after any sequence of requests served one at a time (single syncs, bulk
\* syncs, sends), every external message identifier appears in at most one
\* message row of a given conversation.
C2_MessageIdUniquePerConversation ==
  \A a, b \in Rows : ~SameMessage(a, b)

SyncOps == {"syncOne", "syncAll"}

\* a single-conversation sync that has returned its result
SyncOneDone(st) == st.op = "syncOne" /\ st.pc = "done" /\ st.response.kind = "SyncResult"

Ids(msgs) == [j \in 1..Len(msgs) |-> msgs[j].id]

\* the external identifiers of the rows of conversation c in table rows
StoredIds(rows, c) ==
  {rows[r].message_id : r \in {r \in 1..Len(rows) : rows[r].conversation_id = c}}

\* the external identifiers of the rows the request has added, in row order
NewRowIds(st) ==
  [j \in 1..(Len(messages) - Len(st.messages0)) |->
     messages[Len(st.messages0) + j].message_id]

\* a is b with some elements left out
RECURSIVE IsSubseq(_, _)
IsSubseq(a, b) ==
  IF a = <<>> THEN TRUE
  ELSE IF b = <<>> THEN FALSE
  ELSE IF Head(a) = Head(b) THEN IsSubseq(Tail(a), Tail(b))
  ELSE IsSubseq(a, Tail(b))

MaxTimestamp(msgs) ==
  CHOOSE t \in {msgs[j].timestamp : j \in 1..Len(msgs)} :
    \A j \in 1..Len(msgs) : msgs[j].timestamp <= t

\* C3: when a single-conversation sync follows a single-conversation sync of
\* the same conversation and the session returns the same batch M both times,
\* the second run reports newMessagesSaved = 0 and skippedMessages = |M|.
\* Stated for a first run in which every save succeeded.
C3_SecondSyncSavesNothing ==
  \A p \in Procs :
    LET st == proc[p] IN
    (/\ SyncOneDone(st)
     /\ st.prev.op = "syncOne"
     /\ st.prev.conversationId = st.conversationId
     /\ st.prev.fetched = st.fetched)
    => /\ st.response.newMessagesSaved = 0
       /\ st.response.skippedMessages = Len(st.fetched)

\* C4, as the spec states it: in one single-conversation sync pass the
\* messages persisted are exactly the fetched messages whose external
\* identifier was not stored for the conversation; newMessagesSaved is their
\* number and skippedMessages the number of fetched messages already stored.
C4_PersistedAreExactlyTheUnstored ==
  \A p \in Procs :
    LET st       == proc[p]
        stored   == StoredIds(st.messages0, st.conversationId)
        unstored == SelectSeq(Ids(st.fetched), LAMBDA id : id \notin stored)
    IN  SyncOneDone(st)
        => /\ NewRowIds(st) = unstored
           /\ st.response.newMessagesSaved = Len(unstored)
           /\ st.response.skippedMessages = Len(st.fetched) - Len(unstored)

\* C4, amended: the pass tries to persist exactly the fetched messages whose
\* identifier is not in the identifier set its lookup obtained (the stored
\* identifiers when the lookup returned data, no identifier when it returned
\* none), in the order of the batch; the rows it adds are those of the tries
\* that succeeded; newMessagesSaved is the number of rows added and
\* skippedMessages the number of fetched messages with an identifier in the
\* obtained set.
C4_PersistedAreTheUnseenThatSaved ==
  \A p \in Procs :
    LET st      == proc[p]
        known   == IF st.lookup = "ok" THEN StoredIds(st.messages0, st.conversationId)
                   ELSE {}
        unseen  == SelectSeq(Ids(st.fetched), LAMBDA id : id \notin known)
        tried   == [j \in 1..Len(st.attempted) |-> st.attempted[j].message_id]
    IN  SyncOneDone(st)
        => /\ tried = unseen
           /\ IsSubseq(NewRowIds(st), unseen)
           /\ Len(NewRowIds(st)) + st.failed = Len(unseen)
           /\ st.response.newMessagesSaved = Len(NewRowIds(st))
           /\ st.response.skippedMessages = Len(st.fetched) - Len(unseen)

\* a pass that found one message stored and saved another
C4_Witness ==
  \E p \in Procs :
    /\ SyncOneDone(proc[p])
    /\ proc[p].lookup = "ok"
    /\ proc[p].response.skippedMessages = 1
    /\ proc[p].response.newMessagesSaved = 1

\* C5: after a sync pass of a conversation whose fetched batch is not empty,
\* the conversation's last_message_at is the greatest timestamp of the batch
\* in store form, whether its messages were saved, skipped or failed to save.
C5_LastMessageAtIsBatchMaximum ==
  \A p \in Procs :
    LET pass == proc[p].lastPass IN
    (proc[p].op \in SyncOps /\ pass.fetched # <<>>)
    => conversations[pass.conv].last_message_at = ToStoreTime(MaxTimestamp(pass.fetched))

\* C6: within one sync pass of one conversation, the messages saved are a
\* subsequence of the batch the session returned, in the order of the batch.
C6_SavedInBatchOrder ==
  \A p \in Procs :
    LET st    == proc[p]
        saved == SelectSeq(st.saved, LAMBDA s : s.conv = st.conversationId)
    IN  st.op \in SyncOps
        => IsSubseq([j \in 1..Len(saved) |-> saved[j].message_id], Ids(st.fetched))

\* a pass that has saved two messages of its batch
C6_Witness ==
  \E p \in Procs :
    /\ proc[p].op \in SyncOps
    /\ Len(proc[p].fetched) = 2
    /\ Len(SelectSeq(proc[p].saved, LAMBDA s : s.conv = proc[p].conversationId)) = 2

\* C7: within one conversation's sync pass no saveMessage call follows the
\* update of the conversation's last_message_at.
C7_UpdateAfterAllSaves ==
  \A p \in Procs :
    LET calls == proc[p].calls IN
    proc[p].op \in SyncOps
    => \A a, b \in 1..Len(calls) :
         (/\ a < b
          /\ calls[a].call = "updateConversation"
          /\ calls[b].call = "saveMessage")
         => calls[a].conv # calls[b].conv

\* a finished pass that tried two saves, one of which failed, and then
\* issued the update
C7_Witness ==
  \E p \in Procs :
    LET st == proc[p] IN
    /\ SyncOneDone(st)
    /\ Len(st.attempted) = 2 /\ st.failed = 1
    /\ st.calls[Len(st.calls)].call = "updateConversation"

NoChatMatches(conversation) ==
  \A c \in ChatIdx :
    Replace(Chats[c], Suffix) # Replace(conversation.phone_number, Suffix)

\* C9: a single-conversation sync that has loaded its conversation and listed
\* the chats, none of which matches, returns ChatNotFound, fetches no message
\* and leaves the store as it was.
C9_NoChatIsChatNotFound ==
  \A p \in Procs :
    LET st == proc[p] IN
    (/\ st.op = "syncOne" /\ st.pc = "done"
     /\ st.conversation # NoRow /\ NoChatMatches(st.conversation)
     /\ st.response # ServerError)
    => /\ st.response = ChatNotFound
       /\ \A a \in 1..Len(st.calls) : st.calls[a].call # "fetchMessages"
       /\ messages = st.messages0
       /\ conversations = st.conversations0

\* such a sync has returned
C9_Witness ==
  \E p \in Procs :
    LET st == proc[p] IN
    /\ st.op = "syncOne" /\ st.pc = "done"
    /\ st.conversation # NoRow /\ NoChatMatches(st.conversation)
    /\ st.response = ChatNotFound

\* C10: a single or bulk sync that finds the session not connected fails with
\* SessionUnavailable without any call to the store or the session, and so
\* leaves the store unchanged.
C10_DisconnectedIsSessionUnavailable ==
  \A p \in Procs :
    LET st == proc[p] IN
    (st.op \in SyncOps /\ st.pc # "idle" /\ ~st.connected0)
    => /\ st.pc = "done"
       /\ st.response = SessionUnavailable
       /\ st.calls = <<>>
       /\ messages = st.messages0
       /\ conversations = st.conversations0

\* a bulk sync refused after a request that stored a message
C10_Witness ==
  \E p \in Procs :
    /\ proc[p].op = "syncAll" /\ ~proc[p].connected0
    /\ proc[p].response = SessionUnavailable
    /\ messages # <<>>

\* the identifiers a sync has tried to save for the conversation of its pass
Tried(st) ==
  LET mine == SelectSeq(st.attempted, LAMBDA a : a.conv = st.conversationId)
  IN  [j \in 1..Len(mine) |-> mine[j].message_id]

\* the fetched identifiers that are not in the set the pass's lookup obtained
Unseen(st) == SelectSeq(Ids(st.fetched), LAMBDA id : id \notin st.existingMessageIds)

\* C11: a failed save does not abort the pass.  No message is tried twice;
\* once the loop is over every non-duplicate message of the batch has been
\* tried, the failed ones included; the timestamp update is then issued, and
\* the single-conversation sync returns its result unless that update throws.
C11_FailedSaveDoesNotAbort ==
  \A p \in Procs :
    LET st == proc[p] IN
    (st.op \in SyncOps /\ st.failed > 0)
    => /\ \A a, b \in 1..Len(Tried(st)) : Tried(st)[a] = Tried(st)[b] => a = b
       /\ st.pc = "saveMessage" => IsSubseq(Tried(st), Unseen(st))
       /\ st.pc = "updateConversation" => Tried(st) = Unseen(st)
       /\ (st.op = "syncOne" /\ st.pc = "done")
          => /\ Tried(st) = Unseen(st)
             /\ st.calls[Len(st.calls)].call = "updateConversation"
             /\ st.response.kind \in {"SyncResult", "ServerError"}
             /\ st.response.kind = "ServerError"
                => conversations = st.conversations0

\* a sync whose first save failed has saved the next message of the batch,
\* updated the timestamp and returned its result
C11_Witness ==
  \E p \in Procs :
    LET st == proc[p] IN
    /\ SyncOneDone(st)
    /\ st.failed = 1 /\ Len(st.fetched) = 2 /\ Len(st.attempted) = 2
    /\ Len(st.saved) = 1 /\ st.saved[1].message_id = st.fetched[2].id
    /\ conversations # st.conversations0

\* C12: the number of saves that failed in a single-conversation sync can be
\* read from its result: it is totalMessages less newMessagesSaved less
\* skippedMessages.
C12_FailedSavesInResult ==
  \A p \in Procs :
    LET st == proc[p] IN
    SyncOneDone(st)
    => st.failed = st.response.totalMessages - st.response.newMessagesSaved
                   - st.response.skippedMessages

\* a sync that skipped one message and failed to save another
C12_Witness ==
  \E p \in Procs :
    /\ SyncOneDone(proc[p])
    /\ proc[p].failed = 1
    /\ proc[p].response.skippedMessages = 1

\* a bulk sync whose loop over the conversations has started and which has
\* responded
BulkLoopDone(st) == st.op = "syncAll" /\ st.pc = "done" /\ st.k > 0

Caught(st) == {st.caught[j] : j \in 1..Len(st.caught)}

\* every conversation of the page with a matching chat had its messages
\* fetched
AllConversationsProcessed(st) ==
  \A k \in 1..Len(st.conversations) :
    ~NoChatMatches(st.conversations[k])
    => \E a \in 1..Len(st.calls) :
         st.calls[a] = [call |-> "fetchMessages", conv |-> st.conversations[k].id]

\* C13, as the claim states it: an exception in the pass of one conversation
\* of a bulk sync does not stop the loop, and the grand total of new messages
\* leaves out the conversation that failed.
C13_TotalExcludesFailedConversation ==
  \A p \in Procs :
    LET st == proc[p]
        kept == SelectSeq(st.saved, LAMBDA s : s.conv \notin Caught(st))
    IN  BulkLoopDone(st)
        => /\ st.response.kind = "BulkResult"
           /\ AllConversationsProcessed(st)
           /\ st.response.totalNewMessages = Len(kept)

\* C13, amended: an exception in the pass of one conversation does not stop
\* the loop; the conversation gets no entry in syncResults; the grand total
\* counts every message saved in the call, those a conversation had saved
\* before its timestamp update threw included.
C13_FailureIsolatedPerConversation ==
  \A p \in Procs :
    LET st == proc[p] IN
    BulkLoopDone(st)
    => /\ st.response.kind = "BulkResult"
       /\ AllConversationsProcessed(st)
       /\ \A r \in 1..Len(st.response.syncResults) :
            st.response.syncResults[r].conversationId \notin Caught(st)
       /\ st.response.totalNewMessages = Len(st.saved)

\* the pass of the first conversation of the page threw and a message of a
\* later conversation was saved
C13_Witness ==
  \E p \in Procs :
    LET st == proc[p] IN
    /\ BulkLoopDone(st)
    /\ st.caught # <<>>
    /\ st.caught[1] = st.conversations[1].id
    /\ \E j \in 1..Len(st.saved) : st.saved[j].conv \notin Caught(st)

\* C14: when the select of the stored message identifiers fails, a
\* single-conversation sync returns a server error and persists no message,
\* and a bulk sync persists no message for that conversation.
C14_FailedLookupPersistsNothing ==
  \A p \in Procs :
    LET st == proc[p] IN
    (st.op \in SyncOps /\ st.lookup = "null")
    => /\ \A r \in (Len(st.messages0) + 1)..Len(messages) :
            messages[r].conversation_id # st.conversationId
       /\ (st.op = "syncOne" /\ st.pc = "done") => st.response = ServerError

\* the sync has fetched the messages of the conversation of its pass and the
\* session returned none
FetchedNothing(st) ==
  /\ st.op \in SyncOps
  /\ st.fetched = <<>>
  /\ \E a \in 1..Len(st.calls) :
       st.calls[a] = [call |-> "selectMessageIds", conv |-> st.conversationId]

\* C15: when the session returns no message for the matched chat, the sync
\* issues no save and no update of last_message_at for the conversation and
\* leaves its rows as they were; the single-conversation sync reports
\* totalMessages = 0, newMessagesSaved = 0 and skippedMessages = 0, unless the
\* select of the stored identifiers throws.
C15_EmptyBatchChangesNothing ==
  \A p \in Procs :
    LET st == proc[p] IN
    FetchedNothing(st)
    => /\ \A a \in 1..Len(st.calls) :
            st.calls[a].conv = st.conversationId
            => st.calls[a].call \notin {"saveMessage", "updateConversation"}
       /\ StoredIds(messages, st.conversationId)
            = StoredIds(st.messages0, st.conversationId)
       /\ conversations[st.conversationId] = st.conversations0[st.conversationId]
       /\ (st.op = "syncOne" /\ st.pc = "done")
          => \/ st.response = ServerError
             \/ /\ st.response.kind = "SyncResult"
                /\ st.response.totalMessages = 0
                /\ st.response.newMessagesSaved = 0
                /\ st.response.skippedMessages = 0

\* a sync found the chat of its conversation empty and returned its result,
\* the store holding messages of another conversation
C15_Witness ==
  \E p \in Procs :
    /\ FetchedNothing(proc[p])
    /\ SyncOneDone(proc[p])
    /\ messages # <<>>

\* C16: when a sync of a conversation has been abandoned, a later complete
\* sync of the conversation that fetches the same batch and in which no save
\* fails ends with exactly one message row per fetched identifier.
C16_ResumeGivesOneRowPerMessage ==
  \A p \in Procs :
    LET st == proc[p] IN
    (/\ SyncOneDone(st) /\ st.failed = 0
     /\ st.prev.op = "abandoned"
     /\ st.prev.conversationId = st.conversationId
     /\ st.prev.fetched = st.fetched)
    => \A j \in 1..Len(st.fetched) :
         Cardinality({r \in Rows : /\ messages[r].conversation_id = st.conversationId
                                   /\ messages[r].message_id = st.fetched[j].id}) = 1

\* what a step of the sync in slot p may change in the store: it may append
\* message rows of its conversation and set that conversation's
\* last_message_at
SyncStepFrame(p) ==
  LET c == proc[p].conversationId IN
  /\ Len(messages') >= Len(messages)
  /\ SubSeq(messages', 1, Len(messages)) = messages
  /\ \A r \in (Len(messages) + 1)..Len(messages') : messages'[r].conversation_id = c
  /\ DOMAIN conversations' = DOMAIN conversations
  /\ \A d \in DOMAIN conversations :
       \/ conversations'[d] = conversations[d]
       \/ /\ d = c
          /\ conversations'[d]
               = [conversations[d] EXCEPT !.last_message_at = conversations'[d].last_message_at]

\* C17: a single or bulk sync never modifies or deletes a message row and
\* never inserts or deletes a conversation row; all it changes in the store
\* is to insert message rows and to set last_message_at of the conversation
\* it is syncing.
C17_SyncOnlyInsertsAndStamps ==
  [][\A p \in Procs :
       (proc[p].op \in SyncOps /\ proc'[p] # proc[p]) => SyncStepFrame(p)]_vars

\* a bulk sync has inserted a row next to the rows it found and set a
\* last_message_at
C17_Witness ==
  \E p \in Procs :
    LET st == proc[p] IN
    /\ st.op = "syncAll" /\ st.pc = "done"
    /\ st.messages0 # <<>>
    /\ Len(messages) > Len(st.messages0)
    /\ conversations # st.conversations0

\* the calls of one conversation are next to each other in the order of issue
CallsGrouped(calls) ==
  \A a, b, c \in 1..Len(calls) :
    (a < b /\ b < c /\ calls[a].conv = calls[c].conv) => calls[b].conv = calls[a].conv

\* C18: a bulk sync processes its conversations one after another.  Each of
\* its steps is the completion of the one call it awaits and issues at most
\* one call, so one call at most is in flight; when it issues the message
\* fetch of a conversation, the pass over the conversation before it has run
\* to its end or was given up on an exception; and the calls of a
\* conversation are never interleaved with those of another.
C18_OneConversationAtATime ==
  [][\A p \in Procs :
       LET old == proc[p]
           new == proc'[p]
       IN  (old.op = "syncAll" /\ new.op = "syncAll" /\ new # old) =>
             /\ old.pc = old.calls[Len(old.calls)].call
             /\ Len(new.calls) <= Len(old.calls) + 1
             /\ SubSeq(new.calls, 1, Len(old.calls)) = old.calls
             /\ new.pc # "done" => /\ Len(new.calls) = Len(old.calls) + 1
                                   /\ new.pc = new.calls[Len(new.calls)].call
             /\ (new.pc = "fetchMessages" /\ old.k > 0) =>
                  /\ new.k > old.k
                  /\ \/ new.lastPass.conv = old.conversationId
                     \/ old.conversationId \in Caught(new)
             /\ CallsGrouped(new.calls)]_vars

\* a bulk sync has issued the message fetch of a conversation after the
\* save and the timestamp update of another
C18_Witness ==
  \E p \in Procs :
    LET calls == proc[p].calls IN
    /\ proc[p].op = "syncAll"
    /\ \E a, b, c \in 1..Len(calls) :
         /\ a < b /\ b < c
         /\ calls[a].call = "saveMessage"
         /\ calls[b].call = "updateConversation" /\ calls[b].conv = calls[a].conv
         /\ calls[c].call = "fetchMessages" /\ calls[c].conv # calls[a].conv

\* the conversations of the page whose pass in the bulk sync ran to its end
CompletedPasses(st) ==
  {st.conversations[k].id : k \in {j \in 1..Len(st.conversations) :
                                     /\ ~NoChatMatches(st.conversations[j])
                                     /\ st.conversations[j].id \notin Caught(st)}}

\* the number of messages the request saved for conversation c
SavedIn(st, c) == Len(SelectSeq(st.saved, LAMBDA s : s.conv = c))

RECURSIVE SumNewMessages(_)
SumNewMessages(results) ==
  IF results = <<>> THEN 0
  ELSE results[1].newMessages + SumNewMessages(Tail(results))

ResultIds(results) == {results[r].conversationId : r \in 1..Len(results)}

\* C19, as the claim states it: a bulk sync returns an entry for every
\* conversation of the page whose pass completed, and a grand total equal to
\* the sum of the entries' new-message counts.
C19_ResultForEveryCompletedPass ==
  \A p \in Procs :
    LET st == proc[p]
        results == st.response.syncResults
    IN  BulkLoopDone(st)
        => /\ ResultIds(results) = CompletedPasses(st)
           /\ st.response.totalNewMessages = SumNewMessages(results)

\* C19, amended: a bulk sync returns one entry for each conversation whose
\* pass completed and saved at least one message, with the number of messages
\* saved for it; conversationsSynced counts the entries; the grand total is
\* the sum of the entries' counts plus the messages saved for conversations
\* whose pass was given up after the saves.
C19_ResultForEveryPassThatSaved ==
  \A p \in Procs :
    LET st == proc[p]
        results == st.response.syncResults
        lost == SelectSeq(st.saved, LAMBDA s : s.conv \in Caught(st))
    IN  BulkLoopDone(st)
        => /\ ResultIds(results) = {c \in CompletedPasses(st) : SavedIn(st, c) > 0}
           /\ Cardinality(ResultIds(results)) = Len(results)
           /\ \A r \in 1..Len(results) :
                results[r].newMessages = SavedIn(st, results[r].conversationId)
           /\ st.response.conversationsSynced = Len(results)
           /\ st.response.totalNewMessages = SumNewMessages(results) + Len(lost)

\* a bulk sync has returned an entry for a conversation it saved a message
\* for and none for another whose pass completed
C19_Witness ==
  \E p \in Procs :
    LET st == proc[p] IN
    /\ BulkLoopDone(st)
    /\ st.response.syncResults # <<>>
    /\ CompletedPasses(st) \ ResultIds(st.response.syncResults) # {}

\* the numeric core of a phone-number representation: its digits, without
\* the session's suffix and without a leading "+"
NumericCore(s) == SelectSeq(s, LAMBDA t : t \notin {Suffix, "+"})

SameCoreChats(conversation) ==
  {c \in ChatIdx : NumericCore(Chats[c]) = NumericCore(conversation.phone_number)}

\* C20: a single-conversation sync that has loaded its conversation and
\* listed the chats selects a chat with the numeric core of the
\* conversation's phone number, and returns ChatNotFound exactly when no chat
\* has that numeric core.
C20_ChatNotFoundIffNoSameCore ==
  \A p \in Procs :
    LET st == proc[p] IN
    (/\ st.op = "syncOne" /\ st.pc = "done"
     /\ st.conversation # NoRow
     /\ st.response # ServerError)
    => /\ st.targetChat # 0 => st.targetChat \in SameCoreChats(st.conversation)
       /\ st.response = ChatNotFound <=> SameCoreChats(st.conversation) = {}

\* the rows of conversation c with external identifier id
RowsOf(rows, c, id) ==
  SelectSeq(rows, LAMBDA r : r.conversation_id = c /\ r.message_id = id)

\* the fetched messages of the pass that a sendMessage had stored for the
\* conversation before the sync started
SentAndStored(st) ==
  {j \in 1..Len(st.fetched) :
     \E r \in 1..Len(st.messages0) :
       /\ st.messages0[r].conversation_id = st.conversationId
       /\ st.messages0[r].message_id = st.fetched[j].id
       /\ st.messages0[r].is_from_me}

\* C21: a single-conversation sync that starts after a sendMessage has stored
\* its message and that fetches the message does not try to save it and
\* leaves a single row for it.
C21_SentMessageIsSkippedBySync ==
  \A p \in Procs :
    LET st == proc[p] IN
    SyncOneDone(st)
    => \A j \in SentAndStored(st) :
         /\ \A a \in 1..Len(st.attempted) : st.attempted[a].message_id # st.fetched[j].id
         /\ Len(RowsOf(messages, st.conversationId, st.fetched[j].id))
              = Len(RowsOf(st.messages0, st.conversationId, st.fetched[j].id))

\* C22: when a sendMessage that stored its message and the requests that
\* overlapped it (a sync of the same conversation that fetched the chat
\* between the send and the save among them) have all finished, the store
\* holds a single row for the sent message.
C22_OneRowForSentMessageUnderOverlap ==
  \A p \in Procs :
    LET st == proc[p] IN
    (/\ st.op = "send" /\ st.pc = "done" /\ st.saved # <<>>
     /\ \A q \in Procs : proc[q].pc \in {"idle", "done", "off"})
    => Len(RowsOf(messages, st.conversationId, st.sentMessageId)) = 1

\* the awaited calls of sendMessage and its broadcast, in the order of the code
SendOrder ==
  <<"findOrCreateConversation", "sendWhatsAppMessage", "saveMessage",
    "updateConversation", "emit">>

\* C23: sendMessage resolves or creates the conversation, then sends through
\* the session, then stores the message.  A request without number or
\* message is answered 400 before any call; when no conversation could be
\* resolved the answer is 500 and no send is attempted; when the send failed
\* the answer is 500 and no message row is stored.
C23_SendStepsInOrder ==
  \A p \in Procs :
    LET st == proc[p]
        n  == Len(st.calls)
    IN  st.op = "send"
        => /\ n <= Len(SendOrder)
           /\ \A a \in 1..n : st.calls[a].call = SendOrder[a]
           /\ (st.number = <<>> \/ st.message = "")
                => /\ st.pc = "done" /\ st.response = BadRequest
                   /\ n = 0
                   /\ messages = st.messages0 /\ conversations = st.conversations0
           /\ (st.pc = "done" /\ n = 1)
                => /\ st.response = ServerError
                   /\ st.sentMessageId = 0
                   /\ messages = st.messages0
           /\ (st.pc = "done" /\ n = 2)
                => /\ st.response = ServerError
                   /\ st.sentMessageId = 0
                   /\ st.saved = <<>>
                   /\ messages = st.messages0
           /\ st.saved # <<>> => st.sentMessageId # 0 /\ st.conversation # NoRow

\* a send through the session has failed after the conversation was resolved
C23_Witness ==
  \E p \in Procs :
    LET st == proc[p] IN
    /\ st.op = "send" /\ st.pc = "done"
    /\ Len(st.calls) = 2
    /\ st.conversation # NoRow
    /\ st.response = ServerError

\* the positions of the calls with the given label among the calls of a request
CallsOf(st, label) == {a \in 1..Len(st.calls) : st.calls[a].call = label}

\* C24: in sendMessage the last_message_at update and the new_message
\* broadcast are issued only when the sent message was stored, and after the
\* save; when the session accepted the message and the save failed, neither
\* is issued and the caller receives the success response with the message
\* identifier.
C24_UpdateAndBroadcastOnlyIfStored ==
  \A p \in Procs :
    LET st == proc[p]
        after == CallsOf(st, "updateConversation") \cup CallsOf(st, "emit")
    IN  st.op = "send"
        => /\ after # {}
                => /\ st.saved # <<>>
                   /\ \A a \in after : \E b \in CallsOf(st, "saveMessage") : b < a
           /\ (st.pc = "done" /\ st.sentMessageId # 0 /\ st.saved = <<>>)
                => /\ after = {}
                   /\ st.response = SendResult(st)

\* C25: a conversation's last_message_at never decreases: every step of a
\* sendMessage, a single-conversation sync or a bulk sync leaves it as it was
\* or sets it to a value greater than or equal to the one it replaces.
C25_LastMessageAtNeverDecreases ==
  [][\A c \in DOMAIN conversations :
       conversations'[c].last_message_at >= conversations[c].last_message_at]_vars

\* the saves of the request that threw or returned nothing
FailedSaves(st) == Len(st.attempted) - Len(st.saved)

\* C26: in the result of a single-conversation sync the fetched messages are
\* accounted for: totalMessages is newMessagesSaved plus skippedMessages plus
\* the number of saves that failed or returned nothing, so newMessagesSaved +
\* skippedMessages is at most totalMessages and equals it exactly when no
\* save failed.
C26_ResultAccountsForEveryMessage ==
  \A p \in Procs :
    LET st == proc[p]
        r  == st.response
    IN  SyncOneDone(st)
        => /\ r.totalMessages = Len(st.fetched)
           /\ r.newMessagesSaved = Len(st.saved)
           /\ r.totalMessages = r.newMessagesSaved + r.skippedMessages + FailedSaves(st)
           /\ r.newMessagesSaved + r.skippedMessages <= r.totalMessages
           /\ (r.newMessagesSaved + r.skippedMessages = r.totalMessages)
                <=> (FailedSaves(st) = 0)

\* a sync has returned after one save that succeeded and one that failed
C26_Witness ==
  \E p \in Procs :
    /\ SyncOneDone(proc[p])
    /\ Len(proc[p].saved) = 1
    /\ FailedSaves(proc[p]) = 1

\* the conversations of the bulk sync's page that have no matching chat
WithoutChat(st) ==
  {st.conversations[k].id :
     k \in {j \in 1..Len(st.conversations) : NoChatMatches(st.conversations[j])}}

\* C27: a bulk sync issues no call for a conversation of its page that has no
\* matching chat; when it has responded, it has saved no message for the
\* conversation, the conversation's rows are as the request found them, it
\* has no entry in syncResults, the other conversations were processed, and
\* totalConversationsChecked counts the whole page.
C27_ConversationWithoutChatIsSkipped ==
  \A p \in Procs :
    LET st == proc[p] IN
    st.op = "syncAll"
    => \A c \in WithoutChat(st) :
         /\ \A a \in 1..Len(st.calls) : st.calls[a].conv # c
         /\ BulkLoopDone(st)
              => /\ st.response.kind = "BulkResult"
                 /\ SavedIn(st, c) = 0
                 /\ SelectSeq(messages, LAMBDA r : r.conversation_id = c)
                      = SelectSeq(st.messages0, LAMBDA r : r.conversation_id = c)
                 /\ conversations[c] = st.conversations0[c]
                 /\ c \notin ResultIds(st.response.syncResults)
                 /\ AllConversationsProcessed(st)
                 /\ st.response.totalConversationsChecked
                      = Cardinality({st.conversations[k].id : k \in 1..Len(st.conversations)})

\* a bulk sync has passed over a conversation without chat at the head of its
\* page and saved a message of a later conversation
C27_Witness ==
  \E p \in Procs :
    LET st == proc[p] IN
    /\ BulkLoopDone(st)
    /\ st.conversations[1].id \in WithoutChat(st)
    /\ st.saved # <<>>

\* the external identifier of the message a list entry shows: an entry made
\* from a row carries it as its id, an entry made from an event as message_id
ExternalIdOf(entry) == IF entry.message_id # NoId THEN entry.message_id ELSE entry.id

\* C28: whatever the interleaving of loads and new_message events, the
\* displayed list never holds two entries for the same stored message.
C28_NoMessageDisplayedTwice ==
  \A i, j \in 1..Len(ui.messagesForSelectedChat) :
    i # j => ExternalIdOf(ui.messagesForSelectedChat[i])
               # ExternalIdOf(ui.messagesForSelectedChat[j])

\* C29: the displayed list holds messages of the selected conversation only,
\* also after the selection has changed while a load of the conversation
\* selected before was in flight.
C29_ListShowsSelectedConversationOnly ==
  \A j \in 1..Len(ui.messagesForSelectedChat) :
    ui.messagesForSelectedChat[j].conversation_id = ui.selectedConversation

\* C30: at most one fetchMessagesForChat load is in flight at any time.
C30_AtMostOneLoadInFlight == Len(ui.loads) <= 1

\* the status requests of the provider that are in flight
StatusRequestsInFlight ==
  {r \in DOMAIN ui.provider.requests : ui.provider.requests[r].kind = "status"}

\* C31: at most one status request of refreshStatus is in flight at any
\* time.
C31_AtMostOneStatusRequest == Cardinality(StatusRequestsInFlight) <= 1

\* the load, the send, that carries tag n is in flight
LoadInFlight(n) == \E l \in DOMAIN ui.loads : ui.loads[l].tag = n
SendInFlight(n) == \E s \in DOMAIN ui.sends : ui.sends[s].tag = n

\* the send that carries tag n has the server's response 200 to take
SendSucceeds(n) ==
  \E s \in DOMAIN ui.sends :
    /\ ui.sends[s].tag = n
    /\ ui.sends[s].pc = "sent"
    /\ proc[ui.sends[s].slot].pc = "done"
    /\ proc[ui.sends[s].slot].response.status = 200

\* a step that ends a load leaves both of its flags false; a step that ends
\* a send leaves sendingMessage false, sets sendError to an error text when
\* the send did not succeed and leaves sendError alone when it did
CallEnds ==
  /\ \A n \in 1..MaxLoads :
       LoadInFlight(n) /\ ~LoadInFlight(n)' =>
         ~ui'.loadingMessages /\ ~ui'.isRefreshing
  /\ \A n \in 1..MaxSends :
       SendInFlight(n) /\ ~SendInFlight(n)' =>
         /\ ~ui'.sendingMessage
         /\ IF SendSucceeds(n) THEN ui'.sendError = ui.sendError
            ELSE ui'.sendError # NoError

\* C32: every load that starts ends, and ends with loadingMessages and
\* isRefreshing false; every send that handleSendMessage starts ends, and
\* ends with sendingMessage false, whatever the outcome of the request; the
\* send sets sendError exactly when it did not succeed.
\* (A call in flight carries its tag until it ends, so the call that
\* carries n ends if, at any time, n is free at some later time.)
C32_EveryCallEnds ==
  /\ [][CallEnds]_vars
  /\ \A n \in 1..MaxLoads : []<>~LoadInFlight(n)
  /\ \A n \in 1..MaxSends : []<>~SendInFlight(n)

\* a send has failed and the conversation has been loaded: no call is in
\* flight, the error is shown over the loaded list
C32_Witness ==
  /\ ui.sends = <<>> /\ ui.loads = <<>>
  /\ ui.sendError = "error" /\ ~ui.sendingMessage
  /\ ~ui.loadingMessages /\ ~ui.isRefreshing
  /\ ui.messagesForSelectedChat # <<>>

\* the load that carries tag n, and the await it is at
LoadOf(n) == CHOOSE load \in {ui.loads[l] : l \in DOMAIN ui.loads} : load.tag = n
LoadAt(n) == IF LoadInFlight(n) THEN LoadOf(n).pc ELSE "none"

\* the sync a load has requested has its response, or the failure of its
\* request, to give
SyncSucceeded(n) ==
  /\ LoadAt(n) = "sync"
  /\ proc[LoadOf(n).slot].response.status = 200

\* C33: a load requests a sync of its conversation only when its GET
\* returned no message; it makes its second GET only when the sync has
\* answered 200 with success and newMessagesSaved > 0; a sync that failed,
\* on its way or with an error status, ends the load with the displayed list
\* as it was, not emptied as an error of the load would.
C33_SyncOnlyForEmptyLoad ==
  [][\A n \in 1..MaxLoads :
       /\ LoadAt(n)' = "post" /\ LoadAt(n) # "post" =>
            /\ LoadAt(n) = "get"
            /\ FetchedMessages(LoadOf(n).conversationUUID) = <<>>
            /\ ui'.messagesForSelectedChat = <<>>
       /\ LoadAt(n)' = "sync" /\ LoadAt(n) # "sync" => LoadAt(n) = "post"
       /\ LoadAt(n)' = "retry" /\ LoadAt(n) # "retry" =>
            /\ SyncSucceeded(n)
            /\ proc[LoadOf(n).slot].response.kind = "SyncResult"
            /\ proc[LoadOf(n).slot].response.newMessagesSaved > 0
       /\ LoadAt(n) \in {"post", "sync"} /\ LoadAt(n)' = "none" /\ ~SyncSucceeded(n) =>
            ui'.messagesForSelectedChat = ui.messagesForSelectedChat
     ]_vars

\* the sync a load requested has failed while the list shows a message that
\* arrived after the load's GET
C33_Witness ==
  \E l \in DOMAIN ui.loads :
    /\ ui.loads[l].pc = "sync"
    /\ proc[ui.loads[l].slot].pc = "done"
    /\ proc[ui.loads[l].slot].response.status # 200
    /\ ui.messagesForSelectedChat # <<>>

\* the timestamps of a list never decrease along it
SortedByTimestamp(list) ==
  \A i, j \in 1..Len(list) : i < j => list[i].timestamp <= list[j].timestamp

\* C34: the displayed list is in ascending order of timestamp whenever a
\* load or addIncomingMessage has set it (nothing else sets it).
C34_DisplayedListSorted == SortedByTimestamp(ui.messagesForSelectedChat)

\* the list shows the rows of the selected conversation, of different
\* timestamps, which the store returns in another order than theirs
C34_Witness ==
  /\ ui.selectedConversation # 0
  /\ Len(ui.messagesForSelectedChat) >= 2
  /\ ui.messagesForSelectedChat = FetchedMessages(ui.selectedConversation)
  /\ ~SortedByTimestamp(ConversationMessages(ui.selectedConversation))

====
